---- MODULE Spec2Model ----
(***************************************************************************)
(* A model of coap.py: the CoAP message codec (CoapMessage.deserialize,    *)
(* CoapMessage.serialize / to_bytes), the request dispatcher               *)
(* (CoapServer.handle_request, make_response) and the server loop          *)
(* (CoapServer.loop).                                                      *)
(*                                                                         *)
(* Bytes objects are sequences over 0..255, str objects are sequences of   *)
(* code points.  Python's None is NoneVal and a present value x is         *)
(* Some(x).  An exception leaving a function is a result whose exc field   *)
(* names the exception class.                                              *)
(***************************************************************************)
EXTENDS Integers, Sequences, FiniteSets, TLC

VARIABLES
    pc,          \* position of the program: the steps of loop(), or of a codec run
    objs,        \* the CoapResource objects, by identity
    resources,   \* CoapServer.resources: dict path -> resource object
    datagram,    \* loop(): datagram returned by recvfrom
    addr,        \* loop(): peer address returned by recvfrom
    coap_req,    \* loop(): result of CoapMessage.deserialize
    outcome,     \* what the resource handler did in this turn
    coap_resp,   \* loop(): result of handle_request
    coap_msg,    \* loop(): result of CoapMessage.serialize
    sent,        \* what send_msg handed to sendto in this turn
    exc,         \* exception that left loop(), "" while none did
    locals       \* deserialize(): pos, running_delta and msg.options while its loop runs

vars == <<pc, objs, resources, datagram, addr, coap_req, outcome, coap_resp, coap_msg, sent, exc, locals>>

----------------------------------------------------------------------------
(* Program constants *)

COAP_METHOD_GET == 1
COAP_METHOD_POST == 2
COAP_METHOD_PUT == 3
COAP_METHOD_DELETE == 4

COAP_TYPE_CONFIRMABLE == 0
COAP_TYPE_NON_CONFIRMABLE == 1
COAP_TYPE_ACKNOWLEDGEMENT == 2
COAP_TYPE_RESET == 3

COAP_CONTENTFORMAT_TEXT_PLAIN == 0
COAP_CONTENTFORMAT_APPLICATION_LINKFORMAT == 40
COAP_CONTENTFORMAT_APPLICATION_XML == 41
COAP_CONTENTFORMAT_APPLICATION_OCTET_STREAM == 42
COAP_CONTENTFORMAT_APPLICATION_EXI == 47
COAP_CONTENTFORMAT_APPLICATION_JSON == 50

COAP_OPTION_TYPE_EMPTY == 0
COAP_OPTION_TYPE_OPAQUE == 1
COAP_OPTION_TYPE_UINT == 2
COAP_OPTION_TYPE_STRING == 3

COAP_OPTION_URI_HOST == 3
COAP_OPTION_URI_PORT == 7
COAP_OPTION_URI_PATH == 11
COAP_OPTION_CONTENT_FORMAT == 12
COAP_OPTION_URI_QUERY == 15
COAP_OPTION_ACCEPT == 17

COAP_SUCCESS_CREATED == 65
COAP_SUCCESS_CONTENT == 69
COAP_CLIENT_ERROR_BAD_REQUEST == 128
COAP_CLIENT_ERROR_NOT_FOUND == 132
COAP_SERVER_ERROR_INTERNAL_SERVER_ERROR == 160
COAP_SERVER_ERROR_NOT_IMPLEMENTED == 161

COAP_PAYLOAD_MARKER == 255

\* one entry of coapOptionsRegistry ('name' and 'default' are not modelled)
RegistryEntry(type, min_size, max_size, repeatable) ==
    [type |-> type, min_size |-> min_size, max_size |-> max_size, repeatable |-> repeatable]

coapOptionsRegistry ==
    (COAP_OPTION_URI_HOST :> RegistryEntry(COAP_OPTION_TYPE_STRING, 1, 255, FALSE))
    @@ (COAP_OPTION_URI_PORT :> RegistryEntry(COAP_OPTION_TYPE_UINT, 0, 2, FALSE))
    @@ (COAP_OPTION_URI_PATH :> RegistryEntry(COAP_OPTION_TYPE_STRING, 0, 255, TRUE))
    @@ (COAP_OPTION_CONTENT_FORMAT :> RegistryEntry(COAP_OPTION_TYPE_UINT, 0, 2, FALSE))
    @@ (COAP_OPTION_URI_QUERY :> RegistryEntry(COAP_OPTION_TYPE_STRING, 0, 255, TRUE))
    @@ (COAP_OPTION_ACCEPT :> RegistryEntry(COAP_OPTION_TYPE_UINT, 0, 2, FALSE))

----------------------------------------------------------------------------
(* Python values *)

NoneVal == <<>>

Some(x) == <<x>>

\* a bytes object, a str object and an int, as values of one field
PyBytes(b) == [ty |-> "bytes", b |-> b, n |-> 0]

PyStr(s) == [ty |-> "str", b |-> s, n |-> 0]

PyInt(n) == [ty |-> "int", b |-> <<>>, n |-> n]

\* truth value of a Python value: empty bytes/str and 0 are false
Truthy(v) == IF v.ty = "int" THEN v.n # 0 ELSE Len(v.b) > 0

----------------------------------------------------------------------------
(* CoapMessage.deserialize *)

\* messages and errors share one record shape; unset lists the attributes
\* that CoapMessage.__init__ does not create and nothing assigned yet
MsgRecord(kind, e, ver, t, tkl, code, mid, token, options, payload, unset) ==
    [kind |-> kind, exc |-> e, ver |-> ver, t |-> t, tkl |-> tkl, code |-> code,
     mid |-> mid, token |-> token, options |-> options, payload |-> payload,
     unset |-> unset]

ErrorMsg(e) == MsgRecord("Error", e, 0, 0, 0, 0, 0, NoneVal, <<>>, NoneVal, {})

\* CoapMessage.__init__: ver, t, tkl, token, options, payload; no code, no mid
NewCoapMessage == MsgRecord("CoapMessage", "", 1, 1, 0, 0, 0, NoneVal, <<>>, NoneVal, {"code", "mid"})

\* CoapRequest.__init__ reads msg.code and msg.mid: AttributeError when unset
CoapRequest(msg) ==
    IF msg.unset # {} THEN ErrorMsg("AttributeError")
    ELSE [msg EXCEPT !.kind = "Request"]

\* CoapEmpty.__init__: ver, t, mid of msg, tkl = 0, code = 0
CoapEmpty(msg) ==
    MsgRecord("Empty", "", msg.ver, msg.t, 0, 0, msg.mid, NoneVal, <<>>, NoneVal, {})

\* CoapOption.__init__: an unregistered number reaches
\* "raise CoapUnknownOptionError()", a name the module never defines
CoapOption(number, value) ==
    IF number \in DOMAIN coapOptionsRegistry
    THEN [exc |-> "", number |-> number, value |-> value]
    ELSE [exc |-> "NameError", number |-> number, value |-> value]

\* next_byte is the 1-tuple unpack_from returns; a tuple never equals the int 0xFF
NextByteIsNotMarker(next_byte) == TRUE

\* header bits of the first byte
HeaderVer(b) == b \div 64

HeaderT(b) == (b \div 16) % 4

HeaderTkl(b) == b % 16

\* big-endian 16 bit
UnpackH(hi, lo) == hi * 256 + lo

\* result of the option loop: [exc, options, payload]
OptionsResult(e, options, payload) == [exc |-> e, options |-> options, payload |-> payload]

\* the if/elif chain that expands a 4-bit delta or length field read at
\* offset pos: 13 and 14 read one more byte, 15 is refused; [exc, v, pos]
OptionField(dgram, pos, nibble) ==
    IF nibble = 13 \/ nibble = 14
    THEN IF pos >= Len(dgram)
         THEN [exc |-> "struct.error", v |-> 0, pos |-> pos]
         ELSE [exc |-> "", v |-> dgram[pos + 1] + (IF nibble = 13 THEN 13 ELSE 269), pos |-> pos + 1]
    ELSE IF nibble = 15
    THEN [exc |-> "CoapMessageFormatError", v |-> 0, pos |-> pos]
    ELSE [exc |-> "", v |-> nibble, pos |-> pos]

\* the option loop of deserialize, pos is the 0-based read offset
RECURSIVE DeserializeOptions(_, _, _, _)

\* msg.options.append(CoapOption(option_number, option_value)), next iteration
DeserializeAppend(dgram, pos, running_delta, options, opt) ==
    IF opt.exc # "" THEN OptionsResult(opt.exc, options, NoneVal)
    ELSE DeserializeOptions(dgram, pos, running_delta,
                            Append(options, [number |-> opt.number, value |-> opt.value]))

\* option_number, running_delta, then the value of `length` bytes;
\* d and l are the expanded delta and length
DeserializeValue(dgram, running_delta, options, d, l) ==
    IF l.exc # "" THEN OptionsResult(l.exc, options, NoneVal)
    ELSE IF l.pos + l.v > Len(dgram) THEN OptionsResult("struct.error", options, NoneVal)
    ELSE DeserializeAppend(dgram, l.pos + l.v, running_delta + d.v, options,
                           CoapOption(d.v + running_delta,
                                      PyBytes(SubSeq(dgram, l.pos + 1, l.pos + l.v))))

\* the length field follows the (expanded) delta d
DeserializeLength(dgram, running_delta, options, option_header, d) ==
    IF d.exc # "" THEN OptionsResult(d.exc, options, NoneVal)
    ELSE DeserializeValue(dgram, running_delta, options, d,
                          OptionField(dgram, d.pos, option_header % 16))

DeserializeOptions(dgram, pos, running_delta, options) ==
    IF pos >= Len(dgram)
    THEN \* unpack_from fails, the bare except breaks out of the loop
         OptionsResult("", options, NoneVal)
    ELSE IF NextByteIsNotMarker(<<dgram[pos + 1]>>)
    THEN DeserializeLength(dgram, running_delta, options, dgram[pos + 1],
                           OptionField(dgram, pos + 1, dgram[pos + 1] \div 16))
    ELSE \* payload = the 1-tuple with the remainder; the loop condition then
         \* fails without a break, so the while's else clause raises
         OptionsResult("CoapMessageFormatError", options,
                       Some(SubSeq(dgram, pos + 2, Len(dgram))))

\* the header fields both branches of deserialize assign to msg
DeserializeHeader(dgram) ==
    [NewCoapMessage EXCEPT !.ver = HeaderVer(dgram[1]), !.t = HeaderT(dgram[1]),
                           !.tkl = HeaderTkl(dgram[1]), !.code = dgram[2],
                           !.mid = UnpackH(dgram[3], dgram[4]), !.unset = {}]

\* return CoapRequest(msg) after the option loop r
DeserializeFinish(msg, r) ==
    IF r.exc # "" THEN ErrorMsg(r.exc)
    ELSE CoapRequest([msg EXCEPT !.options = r.options, !.payload = r.payload])

\* the branch "elif dgram_len > 4" with the header in msg
DeserializeRequest(dgram, msg) ==
    IF msg.ver # 1 THEN ErrorMsg("CoapVersionError")
    ELSE IF msg.code = 0 THEN ErrorMsg("CoapMessageFormatError")
    ELSE IF msg.tkl > 0 /\ 4 + msg.tkl > Len(dgram) THEN ErrorMsg("struct.error")
    ELSE DeserializeFinish(
            IF msg.tkl > 0 THEN [msg EXCEPT !.token = Some(SubSeq(dgram, 5, 4 + msg.tkl))] ELSE msg,
            DeserializeOptions(dgram, 4 + msg.tkl, 0, <<>>))

\* the branch "elif dgram_len == 4 and ..." with the header in msg
DeserializeEmpty(msg) ==
    IF msg.ver # 1 THEN ErrorMsg("CoapVersionError") ELSE CoapEmpty(msg)

\* whether deserialize takes its Empty branch: 4 bytes and
\* unpack_from('!B', datagram, 2)[0] == 0, the byte at offset 2
IsEmptyDatagram(dgram) == Len(dgram) = 4 /\ dgram[3] = 0

\* CoapMessage.deserialize
Deserialize(dgram) ==
    IF Len(dgram) < 4 THEN ErrorMsg("CoapMessageFormatError")
    ELSE IF IsEmptyDatagram(dgram) THEN DeserializeEmpty(DeserializeHeader(dgram))
    ELSE IF Len(dgram) > 4 THEN DeserializeRequest(dgram, DeserializeHeader(dgram))
    ELSE \* 4 bytes otherwise: no branch taken, msg has neither code nor mid
         CoapRequest(NewCoapMessage)

----------------------------------------------------------------------------
(* str <-> bytes conversions *)

IsCont(b) == b >= 128 /\ b <= 191

\* length of the UTF-8 sequence a lead byte starts, 0 for no lead byte
Utf8Need(b1) ==
    IF b1 < 128 THEN 1
    ELSE IF b1 >= 194 /\ b1 <= 223 THEN 2
    ELSE IF b1 >= 224 /\ b1 <= 239 THEN 3
    ELSE IF b1 >= 240 /\ b1 <= 244 THEN 4
    ELSE 0

\* the range of the second byte after lead byte b1
Utf8SecondOk(b1, b2) ==
    IF b1 = 224 THEN b2 >= 160 /\ b2 <= 191
    ELSE IF b1 = 237 THEN b2 >= 128 /\ b2 <= 159
    ELSE IF b1 = 240 THEN b2 >= 144 /\ b2 <= 191
    ELSE IF b1 = 244 THEN b2 >= 128 /\ b2 <= 143
    ELSE IsCont(b2)

Utf8WellFormed(b, need) ==
    /\ need > 0
    /\ Len(b) >= need
    /\ need >= 2 => Utf8SecondOk(b[1], b[2])
    /\ \A i \in 3..need : IsCont(b[i])

Utf8CodePoint(b, need) ==
    IF need = 1 THEN b[1]
    ELSE IF need = 2 THEN (b[1] - 192) * 64 + (b[2] - 128)
    ELSE IF need = 3 THEN (b[1] - 224) * 4096 + (b[2] - 128) * 64 + (b[3] - 128)
    ELSE (b[1] - 240) * 262144 + (b[2] - 128) * 4096 + (b[3] - 128) * 64 + (b[4] - 128)

Utf8Cons(cp, rest) == IF rest.exc # "" THEN rest ELSE [exc |-> "", s |-> <<cp>> \o rest.s]

\* str(b, 'utf-8'): strict UTF-8 decoding, result [exc, s]
RECURSIVE Utf8Decode(_)

Utf8DecodeOne(b, need) ==
    IF ~Utf8WellFormed(b, need) THEN [exc |-> "UnicodeDecodeError", s |-> <<>>]
    ELSE Utf8Cons(Utf8CodePoint(b, need), Utf8Decode(SubSeq(b, need + 1, Len(b))))

Utf8Decode(b) ==
    IF b = <<>> THEN [exc |-> "", s |-> <<>>] ELSE Utf8DecodeOne(b, Utf8Need(b[1]))

\* the UTF-8 bytes of one code point
Utf8Bytes(c) ==
    IF c < 128 THEN <<c>>
    ELSE IF c < 2048 THEN <<192 + (c \div 64), 128 + (c % 64)>>
    ELSE IF c < 65536 THEN <<224 + (c \div 4096), 128 + ((c \div 64) % 64), 128 + (c % 64)>>
    ELSE <<240 + (c \div 262144), 128 + ((c \div 4096) % 64),
           128 + ((c \div 64) % 64), 128 + (c % 64)>>

Utf8Prepend(c, rest) ==
    IF c >= 55296 /\ c <= 57343 THEN [exc |-> "UnicodeEncodeError", b |-> <<>>]
    ELSE IF rest.exc # "" THEN rest
    ELSE [exc |-> "", b |-> Utf8Bytes(c) \o rest.b]

\* s.encode('utf-8'), result [exc, b]; a lone surrogate cannot be encoded
RECURSIVE Utf8Encode(_)
Utf8Encode(s) ==
    IF s = <<>> THEN [exc |-> "", b |-> <<>>] ELSE Utf8Prepend(s[1], Utf8Encode(Tail(s)))

IsSpace(c) == c \in {9, 10, 11, 12, 13, 32}

IsDigit(c) == c >= 48 /\ c <= 57

RECURSIVE LStrip(_)
LStrip(s) == IF s # <<>> /\ IsSpace(s[1]) THEN LStrip(Tail(s)) ELSE s

RECURSIVE RStrip(_)
RStrip(s) == IF s # <<>> /\ IsSpace(s[Len(s)]) THEN RStrip(SubSeq(s, 1, Len(s) - 1)) ELSE s

\* value of a run of decimal digits and single underscores between digits
RECURSIVE DigitsValue(_, _)
DigitsValue(s, acc) ==
    IF s = <<>> THEN acc
    ELSE IF s[1] = 95 THEN DigitsValue(Tail(s), acc)
    ELSE DigitsValue(Tail(s), acc * 10 + (s[1] - 48))

\* whether body is a run of decimal digits with single underscores between them
IsDigits(body) ==
    /\ Len(body) > 0
    /\ IsDigit(body[1])
    /\ IsDigit(body[Len(body)])
    /\ \A i \in 1..Len(body) : IsDigit(body[i]) \/ body[i] = 95
    /\ \A i \in 1..(Len(body) - 1) : ~(body[i] = 95 /\ body[i + 1] = 95)

IntOfDigits(body, negative) ==
    IF ~IsDigits(body) THEN [exc |-> "ValueError", n |-> 0]
    ELSE [exc |-> "", n |-> IF negative THEN 0 - DigitsValue(body, 0) ELSE DigitsValue(body, 0)]

\* an optional sign, then the digits
IntOfStripped(t) ==
    IF t # <<>> /\ t[1] \in {43, 45} THEN IntOfDigits(Tail(t), t[1] = 45)
    ELSE IntOfDigits(t, FALSE)

\* int(x) of the characters (or ASCII bytes) of a literal, result [exc, n]
IntOfLiteral(chars) == IntOfStripped(RStrip(LStrip(chars)))

\* int(v) of a Python value
IntOf(v) == IF v.ty = "int" THEN [exc |-> "", n |-> v.n] ELSE IntOfLiteral(v.b)

\* decimal digits of a natural number
RECURSIVE DecimalDigits(_)
DecimalDigits(n) ==
    IF n < 10 THEN <<48 + n>> ELSE Append(DecimalDigits(n \div 10), 48 + (n % 10))

\* str(v) of a str or an int
StrOf(v) ==
    CASE v.ty = "str" -> v.b
      [] v.ty = "int" -> IF v.n < 0 THEN <<45>> \o DecimalDigits(0 - v.n) ELSE DecimalDigits(v.n)

----------------------------------------------------------------------------
(* CoapOption.length, CoapMessage.to_bytes, CoapMessage.serialize *)

\* a | b on naturals
RECURSIVE BitOr(_, _)
BitOr(a, b) ==
    IF a = 0 THEN b
    ELSE IF b = 0 THEN a
    ELSE 2 * BitOr(a \div 2, b \div 2) + (IF a % 2 = 1 \/ b % 2 = 1 THEN 1 ELSE 0)

\* the while loop of CoapOption.length: bytes needed for a natural number
RECURSIVE UintLength(_)
UintLength(int_val) == IF int_val = 0 THEN 0 ELSE 1 + UintLength(int_val \div 256)

\* CoapOption.type
OptionType(option) == coapOptionsRegistry[option.number].type

\* the UINT branch of CoapOption.length given int(self.value) as iv
UintOptionLength(iv) ==
    IF iv.exc # "" THEN [exc |-> iv.exc, n |-> 0] ELSE [exc |-> "", n |-> UintLength(iv.n)]

\* the STRING branch of CoapOption.length given the encoded value as e
StringOptionLength(e) == [exc |-> e.exc, n |-> Len(e.b)]

\* CoapOption.length, result [exc, n]
OptionLength(option) ==
    IF OptionType(option) = COAP_OPTION_TYPE_EMPTY THEN [exc |-> "", n |-> 0]
    ELSE IF OptionType(option) = COAP_OPTION_TYPE_OPAQUE
    THEN IF option.value.ty = "int" THEN [exc |-> "TypeError", n |-> 0]
         ELSE [exc |-> "", n |-> Len(option.value.b)]
    ELSE IF OptionType(option) = COAP_OPTION_TYPE_UINT
    THEN UintOptionLength(IntOf(option.value))
    ELSE \* len(bytes(self.value, 'utf-8')) takes a str only
         IF option.value.ty # "str" THEN [exc |-> "TypeError", n |-> 0]
         ELSE StringOptionLength(Utf8Encode(option.value.b))

\* one 'B' item of struct.pack: the byte, and whether pack rejects the value
PackB(v) == [b |-> <<v % 256>>, bad |-> v < 0 \/ v > 255]

\* no item
PackNothing(bad) == [b |-> <<>>, bad |-> bad]

\* items in sequence
PackBoth(x, y) == [b |-> x.b \o y.b, bad |-> x.bad \/ y.bad]

\* the 4-bit field to_bytes emits for an option delta or length x
Nibble(x) == IF x < 13 THEN x ELSE IF x < 269 THEN 13 ELSE 14

\* ext_delta / ext_length
Ext(x) == IF x < 13 THEN 0 ELSE IF x < 269 THEN x - 13 ELSE x - 269

\* the extension byte: the format string has its 'B' whenever x >= 13, the
\* value is appended only "if ext_delta:" / "if ext_length:"
PackExt(x) ==
    IF x < 13 THEN PackNothing(FALSE)
    ELSE IF Ext(x) = 0 THEN PackNothing(TRUE)
    ELSE PackB(Ext(x))

\* values.append((delta << 4) | length); a negative delta makes it negative
PackHead(option_delta, option_length) ==
    IF option_delta < 0 THEN PackB(option_delta * 16)
    ELSE PackB(BitOr(Nibble(option_delta) * 16, Nibble(option_length)))

\* whether to_bytes emits the option's value: "if option_value and option_length"
HasValue(option, option_length) == Truthy(option.value) /\ option_length # 0

\* the value items: '{n}B' with the value appended as one item
PackValue(option, option_length) ==
    IF ~HasValue(option, option_length) THEN PackNothing(FALSE)
    ELSE IF option.value.ty = "int"
    THEN [b |-> <<option.value.n % 256>>,
          bad |-> option_length # 1 \/ option.value.n < 0 \/ option.value.n > 255]
    ELSE PackNothing(TRUE)

\* all items of one option
PackOption(option, option_delta, option_length) ==
    PackBoth(PackBoth(PackHead(option_delta, option_length), PackExt(option_delta)),
             PackBoth(PackExt(option_length), PackValue(option, option_length)))

\* the exception one iteration of the option loop raises, given option.length() as ol
OptionRaises(option, ol) ==
    IF ol.exc # "" THEN ol.exc
    ELSE IF /\ HasValue(option, ol.n)
            /\ OptionType(option) # COAP_OPTION_TYPE_OPAQUE
            /\ OptionType(option) # COAP_OPTION_TYPE_UINT
    THEN "NameError"      \* "elif option.type() == COAP_OPTION_TYPE": no such name
    ELSE ""

\* the option loop of to_bytes from option i on; result [exc, b, bad], bad
\* meaning that the final struct.pack raises struct.error (a value out of
\* range for its format or fewer values than the format string expects)
RECURSIVE ToBytesOptions(_, _, _, _)

\* running_delta after an option: "running_delta += option_number"
NextRunningDelta(running_delta, option_number) == running_delta + option_number

ToBytesOptionsEmit(options, i, running_delta, acc, items) ==
    ToBytesOptions(options, i + 1, NextRunningDelta(running_delta, options[i].number),
                   PackBoth(acc, items))

ToBytesOptionsStep(options, i, running_delta, acc, ol) ==
    IF OptionRaises(options[i], ol) # ""
    THEN [exc |-> OptionRaises(options[i], ol), b |-> acc.b, bad |-> acc.bad]
    ELSE ToBytesOptionsEmit(options, i, running_delta, acc,
                            PackOption(options[i], options[i].number - running_delta, ol.n))

ToBytesOptions(options, i, running_delta, acc) ==
    IF i > Len(options) THEN [exc |-> "", b |-> acc.b, bad |-> acc.bad]
    ELSE ToBytesOptionsStep(options, i, running_delta, acc, OptionLength(options[i]))

\* payload data as text: str(self.payload).encode('utf-8')
PayloadText(e) == [exc |-> e.exc, b |-> e.b, bad |-> FALSE]

\* the payload branch of to_bytes: data per content_format; result [exc, b, bad]
ToBytesPayload(payload, content_format) ==
    IF content_format = COAP_CONTENTFORMAT_APPLICATION_EXI
    THEN [exc |-> "CoapContentFormatError", b |-> <<>>, bad |-> FALSE]
    ELSE IF content_format = COAP_CONTENTFORMAT_APPLICATION_JSON
    THEN \* json.dumps returns a str, which the 's' format of struct.pack rejects
         [exc |-> "", b |-> <<>>, bad |-> TRUE]
    ELSE IF content_format = COAP_CONTENTFORMAT_APPLICATION_OCTET_STREAM
    THEN IF payload.ty = "bytes" THEN [exc |-> "", b |-> payload.b, bad |-> FALSE]
         ELSE IF payload.ty = "str" THEN [exc |-> "", b |-> <<>>, bad |-> TRUE]
         ELSE [exc |-> "TypeError", b |-> <<>>, bad |-> FALSE]
    ELSE IF content_format \in {COAP_CONTENTFORMAT_TEXT_PLAIN,
                                COAP_CONTENTFORMAT_APPLICATION_XML,
                                COAP_CONTENTFORMAT_APPLICATION_LINKFORMAT}
    THEN PayloadText(Utf8Encode(StrOf(payload)))
    ELSE [exc |-> "CoapContentFormatError", b |-> <<>>, bad |-> FALSE]

\* "if self.payload:"
HasPayload(msg) == msg.payload # NoneVal /\ Truthy(msg.payload[1])

\* "if self.token:"
HasToken(msg) == msg.token # NoneVal /\ msg.token[1] # <<>>

\* the '{tkl}s' item: the token cut or zero-padded to tkl bytes
PackS(token, tkl) == [i \in 1..tkl |-> IF i <= Len(token) THEN token[i] ELSE 0]

\* the header items '!BBH' and the token '{tkl}s'
PackHeader(msg) ==
    [b |-> <<BitOr(BitOr(msg.ver * 64, msg.t[1] * 16), msg.tkl) % 256, msg.code % 256,
             (msg.mid \div 256) % 256, msg.mid % 256>>
           \o (IF HasToken(msg) THEN PackS(msg.token[1], msg.tkl) ELSE <<>>),
     bad |-> \/ BitOr(BitOr(msg.ver * 64, msg.t[1] * 16), msg.tkl) > 255
             \/ msg.code < 0 \/ msg.code > 255
             \/ msg.mid < 0 \/ msg.mid > 65535]

\* struct.pack(fmt, *values) of header, options opts and payload data
ToBytesPack(header, opts, marker, data) ==
    IF opts.exc # "" THEN [exc |-> opts.exc, b |-> <<>>]
    ELSE IF data.exc # "" THEN [exc |-> data.exc, b |-> <<>>]
    ELSE IF header.bad \/ opts.bad \/ data.bad THEN [exc |-> "struct.error", b |-> <<>>]
    ELSE [exc |-> "", b |-> header.b \o opts.b \o marker \o data.b]

\* CoapMessage.to_bytes; result [exc, b]
ToBytes(msg, content_format) ==
    IF msg.t = NoneVal
    THEN [exc |-> "TypeError", b |-> <<>>]     \* None << 4
    ELSE ToBytesPack(PackHeader(msg),
                     ToBytesOptions(msg.options, 1, 0, PackNothing(FALSE)),
                     IF HasPayload(msg) THEN <<COAP_PAYLOAD_MARKER>> ELSE <<>>,
                     IF HasPayload(msg) THEN ToBytesPayload(msg.payload[1], content_format)
                     ELSE [exc |-> "", b |-> <<>>, bad |-> FALSE])

\* the fields CoapMessage.serialize copies from the response
SerializeFields(response) ==
    [ver |-> response.ver,
     t |-> response.t,
     tkl |-> IF response.token # NoneVal /\ response.token[1] # <<>>
             THEN Len(response.token[1]) ELSE 0,
     code |-> response.code,
     mid |-> response.mid,
     token |-> response.token,
     options |-> response.options,
     payload |-> response.payload]

\* CoapMessage.serialize: to_bytes() with its default content_format
Serialize(response) == ToBytes(SerializeFields(response), COAP_CONTENTFORMAT_TEXT_PLAIN)

----------------------------------------------------------------------------
(* Text constants of the program, as code points *)

\* '/'
Slash == <<47>>

\* 'Not Implemented'
TextNotImplemented == <<78, 111, 116, 32, 73, 109, 112, 108, 101, 109, 101, 110, 116, 101, 100>>

\* 'Not Foundd'
TextNotFoundd == <<78, 111, 116, 32, 70, 111, 117, 110, 100, 100>>

\* 'Internal Server Error'
TextInternalServerError ==
    <<73, 110, 116, 101, 114, 110, 97, 108, 32, 83, 101, 114, 118, 101, 114, 32, 69, 114, 114, 111, 114>>

\* 'Bad Request'
TextBadRequest == <<66, 97, 100, 32, 82, 101, 113, 117, 101, 115, 116>>

\* '.well-known/core'
TextWellKnownCore == <<46, 119, 101, 108, 108, 45, 107, 110, 111, 119, 110, 47, 99, 111, 114, 101>>

----------------------------------------------------------------------------
(* Resources and the registry *)

\* CoapPayload.__init__
CoapPayload(payload, content_format) == [data |-> payload, content_format |-> content_format]

\* CoapResource.__init__; handle_get / handle_put: TRUE for a function, FALSE for None
CoapResource(path, handle_get, handle_put) ==
    [kind |-> "CoapResource", title |-> NoneVal, path |-> path, rt |-> NoneVal,
     if_ |-> NoneVal, ct |-> NoneVal, children |-> <<>>,
     handle_get |-> handle_get, handle_put |-> handle_put]

\* WellKnownCore.__init__
WellKnownCore == [CoapResource(TextWellKnownCore, FALSE, FALSE) EXCEPT !.kind = "WellKnownCore"]

\* a dict is the sequence of its [key, val] entries in insertion order
DictHas(d, key) == \E i \in 1..Len(d) : d[i].key = key

DictGet(d, key) == d[CHOOSE i \in 1..Len(d) : d[i].key = key].val

\* d[key] = val: an existing key keeps its position
DictSet(d, key, val) ==
    IF DictHas(d, key)
    THEN [i \in 1..Len(d) |-> IF d[i].key = key THEN [key |-> key, val |-> val] ELSE d[i]]
    ELSE Append(d, [key |-> key, val |-> val])

\* sep.join(parts)
RECURSIVE Join(_, _)
Join(sep, parts) ==
    IF parts = <<>> THEN <<>>
    ELSE IF Len(parts) = 1 THEN parts[1]
    ELSE parts[1] \o sep \o Join(sep, Tail(parts))

\* the link value of one resource in getResourcesInCoRELinkFormat, result [exc, s]
LinkValue(resource) ==
    LET quoted(name, v) == name \o <<61, 34>> \o v[1].b \o <<34>>
        rt == IF resource.rt # NoneVal /\ Truthy(resource.rt[1])
              THEN <<quoted(<<114, 116>>, resource.rt)>> ELSE <<>>
        if_ == IF resource.if_ # NoneVal /\ Truthy(resource.if_[1])
               THEN <<quoted(<<105, 102>>, resource.if_)>> ELSE <<>>
        title == IF resource.title # NoneVal /\ Truthy(resource.title[1])
                 THEN <<quoted(<<116, 105, 116, 108, 101>>, resource.title)>> ELSE <<>>
        hasCt == resource.ct # NoneVal /\ Truthy(resource.ct[1])
        ct == IF hasCt THEN <<(<<99, 116, 61>> \o resource.ct[1].b)>> ELSE <<>>
        link_params == Join(<<59>>, rt \o if_ \o title \o ct)
        present == {a \in {resource.rt, resource.if_, resource.title, resource.ct} :
                        a # NoneVal /\ Truthy(a[1])}
    IN
    \* str + non-str raises TypeError
    IF \E a \in present : a[1].ty # "str" THEN [exc |-> "TypeError", s |-> <<>>]
    ELSE IF link_params # <<>>
    THEN [exc |-> "", s |-> <<60>> \o resource.path \o <<62, 59>> \o link_params]
    ELSE [exc |-> "", s |-> <<60>> \o resource.path \o <<62>>]

\* CoapServer.getResourcesInCoRELinkFormat over the registry entries, result [exc, s]
GetResourcesInCoRELinkFormat(objects, registry) ==
    LET links == [i \in 1..Len(registry) |-> LinkValue(objects[registry[i].val])]
    IN
    IF \E i \in 1..Len(links) : links[i].exc # "" THEN [exc |-> "TypeError", s |-> <<>>]
    ELSE [exc |-> "", s |-> Join(<<44>>, [i \in 1..Len(links) |-> links[i].s])]

----------------------------------------------------------------------------
(* CoapRequest accessors, CoapResponse, CoapServer.handle_request / make_response *)

\* CoapRequest.method
Method(request) == request.code % 32

\* the values of the request's options with the given number, in order
OptionValues(request, number) ==
    LET hasNumber(o) == o.number = number
        selected == SelectSeq(request.options, hasNumber)
    IN [i \in 1..Len(selected) |-> selected[i].value]

DecodeCons(d, rest) ==
    IF d.exc # "" THEN [exc |-> d.exc, strs |-> <<>>]
    ELSE IF rest.exc # "" THEN rest
    ELSE [exc |-> "", strs |-> <<d.s>> \o rest.strs]

\* str(v, 'utf-8'): bytes only
DecodeValue(v) ==
    IF v.ty = "bytes" THEN Utf8Decode(v.b) ELSE [exc |-> "TypeError", s |-> <<>>]

\* str(option.value, 'utf-8') of each value; result [exc, strs]
RECURSIVE DecodeAll(_)
DecodeAll(values) ==
    IF values = <<>> THEN [exc |-> "", strs |-> <<>>]
    ELSE DecodeCons(DecodeValue(values[1]), DecodeAll(Tail(values)))

\* '/'.join(paths)
JoinPaths(paths) == [exc |-> paths.exc, s |-> Join(Slash, paths.strs)]

\* CoapRequest.uri_path; result [exc, s]
UriPath(request) == JoinPaths(DecodeAll(OptionValues(request, COAP_OPTION_URI_PATH)))

\* CoapRequest.uri_queries; result [exc, strs]
UriQueries(request) == DecodeAll(OptionValues(request, COAP_OPTION_URI_QUERY))

\* the first Content-Format value as int(option.value), 0 (False) when there is none
FirstInt(values) == IF values = <<>> THEN [exc |-> "", n |-> 0] ELSE IntOf(values[1])

\* CoapRequest.content_format; result [exc, n]
ContentFormat(request) == FirstInt(OptionValues(request, COAP_OPTION_CONTENT_FORMAT))

\* a sort by option number that puts an option before its equals
RECURSIVE SortOptionsNewestFirst(_)
SortOptionsNewestFirst(options) ==
    IF Len(options) <= 1 THEN options
    ELSE LET last == options[Len(options)]
             front == SortOptionsNewestFirst(SubSeq(options, 1, Len(options) - 1))
             keep == {i \in 1..Len(front) : front[i].number < last.number}
             k == IF keep = {} THEN 0 ELSE CHOOSE i \in keep : \A j \in keep : j <= i
         IN SubSeq(front, 1, k) \o <<last>> \o SubSeq(front, k + 1, Len(front))

\* CoapOption.__lt__ and list.sort: stable insertion by option number
RECURSIVE SortOptions(_)
SortOptions(options) ==
    IF Len(options) <= 1 THEN options
    ELSE LET last == options[Len(options)]
             front == SortOptions(SubSeq(options, 1, Len(options) - 1))
             keep == {i \in 1..Len(front) : ~(last.number < front[i].number)}
             k == IF keep = {} THEN 0 ELSE CHOOSE i \in keep : \A j \in keep : j <= i
         IN SubSeq(front, 1, k) \o <<last>> \o SubSeq(front, k + 1, Len(front))

\* CoapResponse.__init__
NewCoapResponse ==
    [exc |-> "", ver |-> 1, t |-> NoneVal, tkl |-> 0, code |-> 0, mid |-> 0,
     token |-> NoneVal, options |-> <<>>, payload |-> NoneVal]

\* self.options.append(opt); self.options.sort()
AppendSorted(response, opt) ==
    IF opt.exc # "" THEN [response EXCEPT !.exc = opt.exc]
    ELSE [response EXCEPT !.options =
             SortOptions(Append(response.options, [number |-> opt.number, value |-> opt.value]))]

\* CoapResponse.add_option
AddOption(response, option_number, option_value) ==
    AppendSorted(response, CoapOption(option_number, option_value))

\* CoapResponse.content_format
SetContentFormat(response, cf) ==
    IF response.payload # NoneVal /\ Truthy(response.payload[1])
    THEN AddOption(response, COAP_OPTION_CONTENT_FORMAT, cf)
    ELSE response

\* a make_response that acknowledges whatever the request type is
ResponseTypeAlwaysAck(t) == Some(COAP_TYPE_ACKNOWLEDGEMENT)

\* a make_response that answers Ack and Reset requests with their own type
ResponseTypeEcho(t) ==
    IF t = COAP_TYPE_CONFIRMABLE THEN Some(COAP_TYPE_ACKNOWLEDGEMENT) ELSE Some(t)

\* response type chosen by make_response; None for any other request type
ResponseType(t) ==
    IF t = COAP_TYPE_CONFIRMABLE THEN Some(COAP_TYPE_ACKNOWLEDGEMENT)
    ELSE IF t = COAP_TYPE_NON_CONFIRMABLE THEN Some(COAP_TYPE_NON_CONFIRMABLE)
    ELSE NoneVal

\* a make_response that leaves the response's mid and token as constructed
MakeResponseFreshIds(request, payload, rc) ==
    IF payload = NoneVal
    THEN [NewCoapResponse EXCEPT !.exc = "AttributeError"]
    ELSE SetContentFormat(
            [NewCoapResponse EXCEPT !.t = ResponseType(request.t),
                                    !.code = rc,
                                    !.payload = Some(payload[1].data)],
            payload[1].content_format)

\* CoapServer.make_response; payload is NoneVal or Some(CoapPayload); the
\* result's exc names the exception raised
MakeResponse(request, payload, rc) ==
    IF payload = NoneVal
    THEN [NewCoapResponse EXCEPT !.exc = "AttributeError"]    \* None.data
    ELSE SetContentFormat(
            [NewCoapResponse EXCEPT !.t = ResponseType(request.t),
                                    !.code = rc,
                                    !.mid = request.mid,
                                    !.token = request.token,
                                    !.payload = Some(payload[1].data)],
            payload[1].content_format)

\* what a handler function does when called
HandlerReturns(data, cf) == [kind |-> "return", exc |-> "", data |-> data, content_format |-> cf]

HandlerRaises(e) == [kind |-> "raise", exc |-> e, data |-> PyInt(0), content_format |-> PyInt(0)]

\* result of a resource's get / put: [exc, payload]
CallResult(e, payload) == [exc |-> e, payload |-> payload]

\* WellKnownCore.get, links being getResourcesInCoRELinkFormat()
WellKnownCoreGet(links) ==
    CallResult(links.exc,
               CoapPayload(PyStr(links.s), PyInt(COAP_CONTENTFORMAT_APPLICATION_LINKFORMAT)))

\* CoapResource.get / CoapResource.put with handler = handle_get / handle_put
\* (present: it is a function, not None); h is what the function does
CoapResourceCall(present, h) ==
    IF ~present                        \* None(...) raises TypeError
    THEN CallResult("", CoapPayload(PyStr(TextNotImplemented), PyInt(0)))
    ELSE IF h.kind = "return" THEN CallResult("", CoapPayload(h.data, h.content_format))
    ELSE IF h.exc = "TypeError"        \* except TypeError
    THEN CallResult("", CoapPayload(PyStr(TextNotImplemented), PyInt(0)))
    ELSE CallResult(h.exc, CoapPayload(PyInt(0), PyInt(0)))

\* resource.get(**kwargs) / resource.put(**kwargs)
ResourceCall(objects, registry, resource, method, h) ==
    IF resource.kind = "WellKnownCore" /\ method = COAP_METHOD_GET
    THEN WellKnownCoreGet(GetResourcesInCoRELinkFormat(objects, registry))
    ELSE CoapResourceCall(IF method = COAP_METHOD_GET THEN resource.handle_get
                          ELSE resource.handle_put, h)

\* payload and response code: [payload, rc]
Outcome(text, rc) == [payload |-> CoapPayload(PyStr(text), PyInt(0)), rc |-> rc]

\* the except clauses of the GET and PUT branches, r being the call's result
Excepts(r, success) ==
    IF r.exc = "" THEN [payload |-> r.payload, rc |-> success]
    ELSE IF r.exc = "CoapNotFoundError" THEN Outcome(TextNotFoundd, COAP_CLIENT_ERROR_NOT_FOUND)
    ELSE Outcome(TextInternalServerError, COAP_SERVER_ERROR_INTERNAL_SERVER_ERROR)

\* the try block of the GET and PUT branches; getResource raises KeyError
\* for a path that is no key of the registry
Guarded(objects, registry, uri_path, method, h, success) ==
    IF ~DictHas(registry, uri_path)
    THEN Excepts(CallResult("KeyError", CoapPayload(PyInt(0), PyInt(0))), success)
    ELSE Excepts(ResourceCall(objects, registry, objects[DictGet(registry, uri_path)], method, h),
                 success)

\* the if/elif chain over request.method(); result [payload, rc]
Dispatch(objects, registry, uri_path, method, h) ==
    IF method = COAP_METHOD_GET
    THEN Guarded(objects, registry, uri_path, COAP_METHOD_GET, h, COAP_SUCCESS_CONTENT)
    ELSE IF method = COAP_METHOD_PUT
    THEN Guarded(objects, registry, uri_path, COAP_METHOD_PUT, h, COAP_SUCCESS_CREATED)
    ELSE IF method = COAP_METHOD_POST
    THEN Outcome(TextNotImplemented, COAP_SERVER_ERROR_NOT_IMPLEMENTED)
    ELSE IF method = COAP_METHOD_DELETE
    THEN Outcome(TextNotImplemented, COAP_SERVER_ERROR_NOT_IMPLEMENTED)
    ELSE Outcome(TextBadRequest, COAP_CLIENT_ERROR_BAD_REQUEST)

\* return self.make_response(request, payload, rc)
Respond(request, r) == MakeResponse(request, Some(r.payload), r.rc)

\* a query string without '=': q.split('=')[1] raises IndexError
NoEquals(q) == \A j \in 1..Len(q) : q[j] # 61

\* handle_request given uri_path() as p, uri_queries() as q, content_format() as cf
HandleParsed(objects, registry, request, h, p, q, cf) ==
    IF p.exc # "" THEN [NewCoapResponse EXCEPT !.exc = p.exc]
    ELSE IF q.exc # "" THEN [NewCoapResponse EXCEPT !.exc = q.exc]
    ELSE IF p.s = <<>> THEN MakeResponse(request, NoneVal, COAP_CLIENT_ERROR_BAD_REQUEST)
    ELSE IF \E i \in 1..Len(q.strs) : NoEquals(q.strs[i])
    THEN [NewCoapResponse EXCEPT !.exc = "IndexError"]
    ELSE IF cf.exc # "" THEN [NewCoapResponse EXCEPT !.exc = cf.exc]
    ELSE Respond(request, Dispatch(objects, registry, p.s, Method(request), h))

\* CoapServer.handle_request; h is what the handler does if one is called;
\* the result is the response, its exc naming the exception that left the call
HandleRequest(objects, registry, request, h) ==
    IF request.kind # "Request"
    THEN [NewCoapResponse EXCEPT !.exc = "AttributeError"]   \* CoapEmpty has no uri_path
    ELSE HandleParsed(objects, registry, request, h,
                      UriPath(request), UriQueries(request), ContentFormat(request))

\* whether the parsed request reaches a handler function
ParsedInvokes(objects, registry, request, p, q, cf) ==
    /\ p.exc = "" /\ q.exc = "" /\ cf.exc = ""
    /\ p.s # <<>>
    /\ \A i \in 1..Len(q.strs) : ~NoEquals(q.strs[i])
    /\ Method(request) \in {COAP_METHOD_GET, COAP_METHOD_PUT}
    /\ DictHas(registry, p.s)
    /\ IF Method(request) = COAP_METHOD_GET
       THEN /\ objects[DictGet(registry, p.s)].kind = "CoapResource"
            /\ objects[DictGet(registry, p.s)].handle_get
       ELSE objects[DictGet(registry, p.s)].handle_put

\* whether handle_request calls a handler function for this request
HandlerInvoked(objects, registry, request) ==
    /\ request.kind = "Request"
    /\ ParsedInvokes(objects, registry, request,
                     UriPath(request), UriQueries(request), ContentFormat(request))

----------------------------------------------------------------------------
(* Bounds and input sets *)

\* longest datagram body (the bytes after the 4-byte header) received
MaxBody == 3

\* 'h', the path of the embedder's resource
PathH == <<104>>

\* registries the server can enter loop() with: start() has added
\* WellKnownCore after the resources the embedder registered
InitialRegistries ==
    {[objs |-> <<WellKnownCore>>,
      resources |-> <<[key |-> TextWellKnownCore, val |-> 1]>>]}
    \cup
    {[objs |-> <<CoapResource(PathH, g, p), WellKnownCore>>,
      resources |-> <<[key |-> PathH, val |-> 1], [key |-> TextWellKnownCore, val |-> 2]>>] :
        g \in BOOLEAN, p \in BOOLEAN}

\* first header bytes: CON, NON, ACK, RST, CON with a 1-byte token, version 0
FirstBytes == {64, 80, 96, 112, 65, 0}

\* code bytes: Empty, GET, POST, PUT, DELETE, an undefined method, and 1.01
\* (class bits set, low five bits those of GET)
Codes == {0, 1, 2, 3, 4, 5, 33}

\* message ids 0x0001 and 0x1234
MidBytes == {<<0, 1>>, <<18, 52>>}

\* body bytes: Uri-Path header with length 1, 'h', the payload marker,
\* an option header with delta 0 and length 0
BodyBytes == {177, 104, 255, 0}

SeqsUpTo(S, n) == UNION {[1..k -> S] : k \in 0..n}

Headers == {<<f, c>> \o m : f \in FirstBytes, c \in Codes, m \in MidBytes}

\* GET /h and PUT /h, Confirmable, with a token of 9 bytes
LongTokenDatagrams ==
    {<<73, c, 0, 1>> \o <<1, 2, 3, 4, 5, 6, 7, 8, 9>> \o <<177, 104>> : c \in {1, 3}}

\* the datagrams recvfrom returns: a header and a body, a cut header, or a
\* request with a long token
Datagrams ==
    {h \o b : h \in Headers, b \in SeqsUpTo(BodyBytes, MaxBody)}
    \cup {SubSeq(h, 1, k) : h \in Headers, k \in 0..3}
    \cup LongTokenDatagrams

Peers == {"peer1", "peer2"}

\* what a handler function returns or raises
HandlerOutcomes ==
    {HandlerReturns(PyStr(d), PyInt(cf)) :
        d \in {<<>>, <<111, 107>>}, cf \in {0, 40, 47, 50, 99}}
    \cup {HandlerRaises(e) : e \in {"CoapNotFoundError", "TypeError", "ValueError", "KeyError"}}

----------------------------------------------------------------------------
(* CoapServer.loop, one action per statement of the loop body *)

Init ==
    /\ pc = "recv"
    /\ \E r \in InitialRegistries : objs = r.objs /\ resources = r.resources
    /\ datagram = NoneVal
    /\ addr = NoneVal
    /\ coap_req = NoneVal
    /\ outcome = NoneVal
    /\ coap_resp = NoneVal
    /\ coap_msg = NoneVal
    /\ sent = NoneVal
    /\ exc = ""
    /\ locals = NoneVal

\* an exception leaves loop(): the server stops
Abort(e) ==
    /\ pc' = "aborted"
    /\ exc' = e

\* datagram, addr = self.udp_sock.recvfrom(1152)
Recv ==
    /\ pc = "recv"
    /\ \E d \in Datagrams, a \in Peers :
          /\ datagram' = Some(d)
          /\ addr' = Some(a)
    /\ pc' = "deserialize"
    /\ UNCHANGED <<objs, resources, coap_req, outcome, coap_resp, coap_msg, sent, exc, locals>>

\* the rest of the statement, r being what deserialize returned or raised
DeserializeDone(r) ==
    IF r.kind = "Error"
    THEN Abort(r.exc) /\ UNCHANGED coap_req
    ELSE coap_req' = Some(r) /\ pc' = "handle" /\ UNCHANGED exc

\* coap_req = CoapMessage.deserialize(datagram)
DeserializeStep ==
    /\ pc = "deserialize"
    /\ DeserializeDone(Deserialize(datagram[1]))
    /\ UNCHANGED <<objs, resources, datagram, addr, outcome, coap_resp, coap_msg, sent, locals>>

\* the rest of the statement, r being what handle_request returned or raised
HandleRequestDone(r) ==
    IF r.exc # ""
    THEN Abort(r.exc) /\ UNCHANGED coap_resp
    ELSE coap_resp' = Some(r) /\ pc' = "serialize" /\ UNCHANGED exc

\* coap_resp = self.handle_request(coap_req); the handler function, when the
\* request reaches one, does any of HandlerOutcomes
HandleRequestStep ==
    /\ pc = "handle"
    /\ IF HandlerInvoked(objs, resources, coap_req[1])
       THEN \E h \in HandlerOutcomes :
               /\ outcome' = Some(h)
               /\ HandleRequestDone(HandleRequest(objs, resources, coap_req[1], h))
       ELSE /\ outcome' = NoneVal
            /\ HandleRequestDone(HandleRequest(objs, resources, coap_req[1],
                                               HandlerRaises("TypeError")))
    /\ UNCHANGED <<objs, resources, datagram, addr, coap_req, coap_msg, sent, locals>>

\* the rest of the statement, r being what serialize returned or raised
SerializeDone(r) ==
    IF r.exc # ""
    THEN Abort(r.exc) /\ UNCHANGED coap_msg
    ELSE coap_msg' = Some(r.b) /\ pc' = "send" /\ UNCHANGED exc

\* coap_msg = CoapMessage.serialize(coap_resp)
SerializeStep ==
    /\ pc = "serialize"
    /\ SerializeDone(Serialize(coap_resp[1]))
    /\ UNCHANGED <<objs, resources, datagram, addr, coap_req, outcome, coap_resp, sent, locals>>

\* a send_msg that addresses the datagram to some peer, not to addr
SendMsgToAnyPeer ==
    /\ pc = "send"
    /\ \E a \in Peers : sent' = Some([datagram |-> coap_msg[1], destination |-> a])
    /\ pc' = "loop"
    /\ UNCHANGED <<objs, resources, datagram, addr, coap_req, outcome, coap_resp, coap_msg, exc, locals>>

\* self.send_msg(coap_msg, addr): sendto(datagram, destination)
SendMsg ==
    /\ pc = "send"
    /\ sent' = Some([datagram |-> coap_msg[1], destination |-> addr[1]])
    /\ pc' = "loop"
    /\ UNCHANGED <<objs, resources, datagram, addr, coap_req, outcome, coap_resp, coap_msg, exc, locals>>

\* while True: the next turn begins, the values of the finished turn are dead
LoopAgain ==
    /\ pc = "loop"
    /\ datagram' = NoneVal
    /\ addr' = NoneVal
    /\ coap_req' = NoneVal
    /\ outcome' = NoneVal
    /\ coap_resp' = NoneVal
    /\ coap_msg' = NoneVal
    /\ sent' = NoneVal
    /\ pc' = "recv"
    /\ UNCHANGED <<objs, resources, exc, locals>>

Next ==
    \/ Recv
    \/ DeserializeStep
    \/ HandleRequestStep
    \/ SerializeStep
    \/ SendMsg
    \/ LoopAgain

Spec == Init /\ [][Next]_vars

----------------------------------------------------------------------------
(* The codec alone: deserialize applied to datagrams, serialize applied to *)
(* messages and deserialize applied to what serialize produced             *)

\* most options of a message handed to serialize
MaxOptions == 3

\* first header bytes: CON, NON, CON with a 2-byte token, versions 0, 2 and 3
CodecFirstBytes == {64, 80, 66, 0, 128, 192}

\* code bytes: Empty, GET, 2.05
CodecCodes == {0, 1, 69}

\* body bytes: Uri-Path header with length 1, 'h', the payload marker, an
\* option header with delta 0 and length 0, one with length 15, one with delta 13
CodecBodyBytes == {177, 104, 255, 0, 191, 208}

CodecHeaders == {<<f, c>> \o m : f \in CodecFirstBytes, c \in CodecCodes, m \in MidBytes}

CodecDatagrams ==
    {h \o b : h \in CodecHeaders, b \in SeqsUpTo(CodecBodyBytes, MaxBody)}
    \cup {SubSeq(h, 1, k) : h \in CodecHeaders, k \in 0..3}

\* options a message may carry: Uri-Host '', Uri-Port 80, Uri-Path 'h' and '',
\* Content-Format 0, 40 and 300
OptionPool ==
    {[number |-> COAP_OPTION_URI_HOST, value |-> PyStr(<<>>)],
     [number |-> COAP_OPTION_URI_PORT, value |-> PyInt(80)],
     [number |-> COAP_OPTION_URI_PATH, value |-> PyStr(PathH)],
     [number |-> COAP_OPTION_URI_PATH, value |-> PyStr(<<>>)],
     [number |-> COAP_OPTION_CONTENT_FORMAT, value |-> PyInt(0)],
     [number |-> COAP_OPTION_CONTENT_FORMAT, value |-> PyInt(40)],
     [number |-> COAP_OPTION_CONTENT_FORMAT, value |-> PyInt(300)]}

\* sorted ascending by number, an option that is not repeatable at most once
ValidOptions(options) ==
    /\ \A i \in 1..(Len(options) - 1) : options[i].number <= options[i + 1].number
    /\ \A i, j \in 1..Len(options) :
          (i # j /\ options[i].number = options[j].number)
              => coapOptionsRegistry[options[i].number].repeatable

\* the valid messages: version 1, CON or NON, a token of 0 or 1 bytes, valid
\* options, no payload or the payload 'ok'
Messages ==
    {[NewCoapResponse EXCEPT !.t = Some(t), !.code = c, !.mid = m, !.token = k,
                             !.options = o, !.payload = pl] :
        t \in {COAP_TYPE_CONFIRMABLE, COAP_TYPE_NON_CONFIRMABLE},
        c \in {COAP_METHOD_GET, COAP_SUCCESS_CONTENT},
        m \in {1, 4660},
        k \in {NoneVal, Some(<<97>>)},
        o \in {x \in SeqsUpTo(OptionPool, MaxOptions) : ValidOptions(x)},
        pl \in {NoneVal, Some(PyStr(<<111, 107>>))}}

InitCodec ==
    /\ pc = "codec"
    /\ objs = <<>>
    /\ resources = <<>>
    /\ \/ (\E d \in CodecDatagrams : datagram = Some(d)) /\ coap_resp = NoneVal
       \/ datagram = NoneVal /\ (\E m \in Messages : coap_resp = Some(m))
    /\ addr = NoneVal
    /\ coap_req = NoneVal
    /\ outcome = NoneVal
    /\ coap_msg = NoneVal
    /\ sent = NoneVal
    /\ exc = ""
    /\ locals = NoneVal

\* CoapMessage.deserialize(datagram); an exception is kept as the result
CodecDeserialize ==
    /\ pc = "codec"
    /\ datagram # NoneVal
    /\ coap_req' = Some(Deserialize(datagram[1]))
    /\ pc' = "decoded"
    /\ UNCHANGED <<objs, resources, datagram, addr, outcome, coap_resp, coap_msg, sent, exc, locals>>

\* the rest of the call, r being what serialize returned or raised
CodecSerializeDone(r) ==
    IF r.exc # ""
    THEN exc' = r.exc /\ pc' = "failed" /\ UNCHANGED coap_msg
    ELSE coap_msg' = Some(r.b) /\ pc' = "encoded" /\ UNCHANGED exc

\* CoapMessage.serialize(message)
CodecSerialize ==
    /\ pc = "codec"
    /\ coap_resp # NoneVal
    /\ CodecSerializeDone(Serialize(coap_resp[1]))
    /\ UNCHANGED <<objs, resources, datagram, addr, coap_req, outcome, coap_resp, sent, locals>>

\* CoapMessage.deserialize(CoapMessage.serialize(message))
CodecRoundTrip ==
    /\ pc = "encoded"
    /\ datagram' = coap_msg
    /\ coap_req' = Some(Deserialize(coap_msg[1]))
    /\ pc' = "decoded"
    /\ UNCHANGED <<objs, resources, addr, outcome, coap_resp, coap_msg, sent, exc, locals>>

NextCodec ==
    \/ CodecDeserialize
    \/ CodecSerialize
    \/ CodecRoundTrip

SpecCodec == InitCodec /\ [][NextCodec]_vars

----------------------------------------------------------------------------
(* The embedder building the registry before start(), exc being the        *)
(* exception its last call raised, and a discovery request on the started  *)
(* server                                                                  *)

\* most CoapResource objects the embedder creates
MaxObjects == 2

\* most '/' in a resource path (addChild lengthens the child's path each time)
MaxSlashes == 2

\* 'temp' and 'b', the paths resources are created with
ResourceNames == {<<116, 101, 109, 112>>, <<98>>}

\* 'temperature'
TextTemperature == <<116, 101, 109, 112, 101, 114, 97, 116, 117, 114, 101>>

\* the rt attribute the embedder sets on a resource, or leaves None
ResourceTypes == {NoneVal, Some(PyStr(TextTemperature))}

\* the number of '/' in a path
Slashes(path) == Cardinality({i \in 1..Len(path) : path[i] = 47})

\* dict.pop(key) of a key that is present: the remaining entries
DictPop(d, key) ==
    LET other(e) == e.key # key
    IN SelectSeq(d, other)

\* list.remove(x): the list without the first occurrence of x
ListRemove(list, x) ==
    LET k == CHOOSE i \in 1..Len(list) : list[i] = x /\ \A j \in 1..(i - 1) : list[j] # x
    IN SubSeq(list, 1, k - 1) \o SubSeq(list, k + 1, Len(list))

\* x in list
ListHas(list, x) == \E i \in 1..Len(list) : list[i] = x

\* GET /.well-known/core, Confirmable, mid 1: Uri-Path '.well-known', Uri-Path 'core'
DiscoveryDatagram ==
    <<64, 1, 0, 1, 187, 46, 119, 101, 108, 108, 45, 107, 110, 111, 119, 110,
      4, 99, 111, 114, 101>>

InitRegistry ==
    /\ pc = "setup"
    /\ objs = <<>>
    /\ resources = <<>>
    /\ datagram = NoneVal
    /\ addr = NoneVal
    /\ coap_req = NoneVal
    /\ outcome = NoneVal
    /\ coap_resp = NoneVal
    /\ coap_msg = NoneVal
    /\ sent = NoneVal
    /\ exc = ""
    /\ locals = NoneVal

\* r = CoapResource(path, server, None, None), then r.rt = ... by the embedder
NewResource ==
    /\ pc = "setup"
    /\ Len(objs) < MaxObjects
    /\ \E name \in ResourceNames, rt \in ResourceTypes :
          objs' = Append(objs, [CoapResource(name, FALSE, FALSE) EXCEPT !.rt = rt])
    /\ exc' = ""
    /\ UNCHANGED <<pc, resources, datagram, addr, coap_req, outcome, coap_resp, coap_msg, sent, locals>>

\* server.addResource(objs[id])
AddResource(id) ==
    /\ pc = "setup"
    /\ resources' = DictSet(resources, objs[id].path, id)
    /\ exc' = ""
    /\ UNCHANGED <<pc, objs, datagram, addr, coap_req, outcome, coap_resp, coap_msg, sent, locals>>

\* the heap after "child.path = self.path + '/' + child.path" and
\* "self.children.append(child)", path being the child's new path
AddChildHeap(parent, child, path) ==
    [i \in 1..Len(objs) |->
        IF i = parent /\ i = child
        THEN [objs[i] EXCEPT !.path = path, !.children = Append(objs[i].children, child)]
        ELSE IF i = parent THEN [objs[i] EXCEPT !.children = Append(objs[i].children, child)]
        ELSE IF i = child THEN [objs[i] EXCEPT !.path = path]
        ELSE objs[i]]

\* objs[parent].addChild(objs[child])
AddChild(parent, child) ==
    /\ pc = "setup"
    /\ Slashes(objs[parent].path) + Slashes(objs[child].path) < MaxSlashes
    /\ objs' = AddChildHeap(parent, child, objs[parent].path \o Slash \o objs[child].path)
    /\ resources' = DictSet(resources, objs[parent].path \o Slash \o objs[child].path, child)
    /\ exc' = ""
    /\ UNCHANGED <<pc, datagram, addr, coap_req, outcome, coap_resp, coap_msg, sent, locals>>

\* self.resources.pop(uri).deleteChildren(): pop raises KeyError for a missing
\* key; no class defines deleteChildren, so the call on the popped resource
\* raises AttributeError
DeleteResourceCall(uri) ==
    IF ~DictHas(resources, uri)
    THEN exc' = "KeyError" /\ UNCHANGED resources
    ELSE exc' = "AttributeError" /\ resources' = DictPop(resources, uri)

\* server.deleteResource(uri) called by the embedder
DeleteResource(uri) ==
    /\ pc = "setup"
    /\ DeleteResourceCall(uri)
    /\ UNCHANGED <<pc, objs, datagram, addr, coap_req, outcome, coap_resp, coap_msg, sent, locals>>

\* objs[parent].removeChild(objs[child]): list.remove raises ValueError for a
\* resource that is no child; deleteResource is then called with the child
\* object, which is no key of the registry: KeyError
RemoveChild(parent, child) ==
    /\ pc = "setup"
    /\ IF ListHas(objs[parent].children, child)
       THEN /\ objs' = [objs EXCEPT ![parent].children = ListRemove(objs[parent].children, child)]
            /\ exc' = "KeyError"
       ELSE /\ exc' = "ValueError"
            /\ UNCHANGED objs
    /\ UNCHANGED <<pc, resources, datagram, addr, coap_req, outcome, coap_resp, coap_msg, sent, locals>>

\* objs[parent].removeChildren(): the first deleteResource(r.path) raises, so
\* "self.children = []" is reached only when there are no children
RemoveChildren(parent) ==
    /\ pc = "setup"
    /\ IF objs[parent].children = <<>>
       THEN exc' = "" /\ UNCHANGED <<objs, resources>>
       ELSE DeleteResourceCall(objs[objs[parent].children[1]].path) /\ UNCHANGED objs
    /\ UNCHANGED <<pc, datagram, addr, coap_req, outcome, coap_resp, coap_msg, sent, locals>>

\* server.start(): self.addResource(WellKnownCore(self)), then the loop runs
Start ==
    /\ pc = "setup"
    /\ objs' = Append(objs, WellKnownCore)
    /\ resources' = DictSet(resources, TextWellKnownCore, Len(objs) + 1)
    /\ pc' = "started"
    /\ exc' = ""
    /\ UNCHANGED <<datagram, addr, coap_req, outcome, coap_resp, coap_msg, sent, locals>>

\* the rest of Discover, r being what handle_request returned or raised
DiscoverDone(r) ==
    IF r.exc # ""
    THEN exc' = r.exc /\ UNCHANGED coap_resp
    ELSE coap_resp' = Some(r) /\ UNCHANGED exc

\* the started server receives GET /.well-known/core:
\* handle_request(deserialize(datagram))
Discover ==
    /\ pc = "started"
    /\ datagram' = Some(DiscoveryDatagram)
    /\ coap_req' = Some(Deserialize(DiscoveryDatagram))
    /\ DiscoverDone(HandleRequest(objs, resources, Deserialize(DiscoveryDatagram),
                                  HandlerRaises("TypeError")))
    /\ pc' = "discovered"
    /\ UNCHANGED <<objs, resources, addr, outcome, coap_msg, sent, locals>>

\* the paths an embedder can name: keys of the registry and paths of its objects
KnownPaths ==
    {resources[i].key : i \in 1..Len(resources)} \cup {objs[i].path : i \in 1..Len(objs)}

NextRegistry ==
    \/ NewResource
    \/ \E id \in 1..Len(objs) : AddResource(id)
    \/ \E parent \in 1..Len(objs), child \in 1..Len(objs) : AddChild(parent, child)
    \/ \E uri \in KnownPaths : DeleteResource(uri)
    \/ \E parent \in 1..Len(objs), child \in 1..Len(objs) : RemoveChild(parent, child)
    \/ \E parent \in 1..Len(objs) : RemoveChildren(parent)
    \/ Start
    \/ Discover

SpecRegistry == InitRegistry /\ [][NextRegistry]_vars

----------------------------------------------------------------------------
(* A CoapResponse on which a caller sets the payload and calls add_option   *)
(* and content_format, exc being the exception its last call raised        *)

MaxAdds == 3

\* option numbers a caller passes: the registered ones and two that are not
OptionNumberInputs == (DOMAIN coapOptionsRegistry) \cup {0, 4}

PayloadInputs == {NoneVal, Some(PyStr(<<>>)), Some(PyStr(<<111, 107>>))}

\* response = CoapResponse()
InitOptions ==
    /\ pc = "options"
    /\ objs = <<>>
    /\ resources = <<>>
    /\ datagram = NoneVal
    /\ addr = NoneVal
    /\ coap_req = NoneVal
    /\ outcome = NoneVal
    /\ coap_resp = Some(NewCoapResponse)
    /\ coap_msg = NoneVal
    /\ sent = NoneVal
    /\ exc = ""
    /\ locals = NoneVal

\* what a call that returned the response r, or raised r.exc, leaves behind
OptionCallDone(r) ==
    /\ coap_resp' = IF r.exc = "" THEN Some(r) ELSE coap_resp
    /\ exc' = r.exc
    /\ UNCHANGED <<pc, objs, resources, datagram, addr, coap_req, outcome, coap_msg, sent, locals>>

\* response.payload = payload
SetPayload(payload) ==
    /\ pc = "options"
    /\ coap_resp[1].payload # payload
    /\ OptionCallDone([coap_resp[1] EXCEPT !.payload = payload])

\* response.add_option(option_number, k), k counting the options of the list
AddOptionCall(option_number) ==
    /\ pc = "options"
    /\ Len(coap_resp[1].options) < MaxAdds
    /\ OptionCallDone(AddOption(coap_resp[1], option_number,
                                PyInt(Len(coap_resp[1].options) + 1)))

\* response.content_format(k), k counting the options of the list
ContentFormatCall ==
    /\ pc = "options"
    /\ Len(coap_resp[1].options) < MaxAdds
    /\ OptionCallDone(SetContentFormat(coap_resp[1],
                                       PyInt(Len(coap_resp[1].options) + 1)))

NextOptions ==
    \/ \E payload \in PayloadInputs : SetPayload(payload)
    \/ \E option_number \in OptionNumberInputs : AddOptionCall(option_number)
    \/ ContentFormatCall

SpecOptions == InitOptions /\ [][NextOptions]_vars

----------------------------------------------------------------------------
(* CoapMessage.deserialize with its while loop run one pass at a time, the  *)
(* locals of the loop in the variable locals                                *)

\* a pos that "pos += 1" after reading next_byte leaves as it was
AfterNextByteStays(pos) == pos

\* pos after "next_byte = struct.unpack_from('!B', datagram, pos); pos += 1"
AfterNextByte(pos) == pos + 1

\* what one pass of the loop does: kind "break" (the bare except), "raise"
\* (exc leaves deserialize) or "again" (the next pass starts with these locals)
Pass(kind, e, pos, running_delta, options) ==
    [kind |-> kind, exc |-> e, pos |-> pos, running_delta |-> running_delta,
     options |-> options]

\* msg.options.append(CoapOption(option_number, option_value))
PassAppend(pos, running_delta, options, opt) ==
    IF opt.exc # "" THEN Pass("raise", opt.exc, pos, running_delta, options)
    ELSE Pass("again", "", pos, running_delta,
              Append(options, [number |-> opt.number, value |-> opt.value]))

\* option_number, running_delta, then the value of `length` bytes
PassValue(dgram, running_delta, options, d, l) ==
    IF l.exc # "" THEN Pass("raise", l.exc, l.pos, running_delta, options)
    ELSE IF l.pos + l.v > Len(dgram)
    THEN Pass("raise", "struct.error", l.pos, running_delta, options)
    ELSE PassAppend(l.pos + l.v, running_delta + d.v, options,
                    CoapOption(d.v + running_delta,
                               PyBytes(SubSeq(dgram, l.pos + 1, l.pos + l.v))))

\* the length field follows the (expanded) delta d
PassLength(dgram, running_delta, options, option_header, d) ==
    IF d.exc # "" THEN Pass("raise", d.exc, d.pos, running_delta, options)
    ELSE PassValue(dgram, running_delta, options, d,
                   OptionField(dgram, d.pos, option_header % 16))

\* one pass of "while not datagram_deserialization_complete"
LoopPass(dgram, pos, running_delta, options) ==
    IF pos >= Len(dgram)
    THEN Pass("break", "", pos, running_delta, options)
    ELSE IF NextByteIsNotMarker(<<dgram[pos + 1]>>)
    THEN PassLength(dgram, running_delta, options, dgram[pos + 1],
                    OptionField(dgram, AfterNextByte(pos), dgram[pos + 1] \div 16))
    ELSE Pass("raise", "CoapMessageFormatError", AfterNextByte(pos), running_delta, options)

\* whether deserialize reaches its while loop
EntersLoop(dgram) ==
    /\ Len(dgram) > 4
    /\ HeaderVer(dgram[1]) = 1
    /\ dgram[2] # 0
    /\ 4 + HeaderTkl(dgram[1]) <= Len(dgram)

\* msg when the loop starts: the header fields and the token
MsgAtLoop(dgram) ==
    IF HeaderTkl(dgram[1]) > 0
    THEN [DeserializeHeader(dgram) EXCEPT !.token = Some(SubSeq(dgram, 5, 4 + HeaderTkl(dgram[1])))]
    ELSE DeserializeHeader(dgram)

\* bytes after the header: Uri-Host headers with delta 3 and with delta 0, a
\* header with length 1, 'h', the payload marker, one with delta 13, one
\* with delta 15
LoopBodyBytes == {48, 0, 49, 104, 255, 208, 240}

LoopDatagrams ==
    {<<f, 1, 0, 1>> \o b : f \in {64, 65}, b \in SeqsUpTo(LoopBodyBytes, MaxBody)}
    \cup {<<64, 1, 0>>, <<64, 0, 0, 1>>, <<128, 1, 0, 1, 48>>, <<64, 0, 0, 1, 48>>}

InitDeserialize ==
    /\ pc = "call"
    /\ objs = <<>>
    /\ resources = <<>>
    /\ \E d \in LoopDatagrams : datagram = Some(d)
    /\ addr = NoneVal
    /\ coap_req = NoneVal
    /\ outcome = NoneVal
    /\ coap_resp = NoneVal
    /\ coap_msg = NoneVal
    /\ sent = NoneVal
    /\ exc = ""
    /\ locals = NoneVal

\* a call that returns or raises before the while loop
DeserializeNoLoop ==
    /\ pc = "call"
    /\ ~EntersLoop(datagram[1])
    /\ coap_req' = Some(Deserialize(datagram[1]))
    /\ pc' = "returned"
    /\ UNCHANGED <<objs, resources, datagram, addr, outcome, coap_resp, coap_msg, sent, exc, locals>>

\* the header and the token are read, the loop is about to start
DeserializeEnterLoop ==
    /\ pc = "call"
    /\ EntersLoop(datagram[1])
    /\ locals' = Some([pos |-> 4 + HeaderTkl(datagram[1][1]), running_delta |-> 0,
                       options |-> <<>>])
    /\ pc' = "loop"
    /\ UNCHANGED <<objs, resources, datagram, addr, coap_req, outcome, coap_resp, coap_msg, sent, exc>>

\* the rest of a pass that did r
LoopPassDone(r) ==
    IF r.kind = "again"
    THEN /\ locals' = Some([pos |-> r.pos, running_delta |-> r.running_delta,
                            options |-> r.options])
         /\ UNCHANGED <<pc, coap_req>>
    ELSE /\ coap_req' = Some(DeserializeFinish(MsgAtLoop(datagram[1]),
                                               OptionsResult(r.exc, r.options, NoneVal)))
         /\ pc' = "returned"
         /\ UNCHANGED locals

\* one pass of the while loop
DeserializeLoopPass ==
    /\ pc = "loop"
    /\ LoopPassDone(LoopPass(datagram[1], locals[1].pos, locals[1].running_delta,
                             locals[1].options))
    /\ UNCHANGED <<objs, resources, datagram, addr, outcome, coap_resp, coap_msg, sent, exc>>

NextDeserialize ==
    \/ DeserializeNoLoop
    \/ DeserializeEnterLoop
    \/ DeserializeLoopPass

SpecDeserialize == InitDeserialize /\ [][NextDeserialize]_vars

\* the interpreter runs the next statement of a call in progress
SpecDeserializeFair == SpecDeserialize /\ WF_vars(NextDeserialize)

----------------------------------------------------------------------------
(* Properties of the server loop, checked under Spec *)

\* the turn's datagram has been through deserialize
Deserialized == datagram # NoneVal /\ pc # "deserialize"

\* the turn's handle_request has returned a response for a parsed request
Responded == coap_req # NoneVal /\ coap_resp # NoneVal

\* 'Not Found'
TextNotFound == <<78, 111, 116, 32, 70, 111, 117, 110, 100>>

\* C1: when deserialize fails on a received datagram, the loop does not stop
\* and nothing is sent for that datagram.
C1_MalformedDatagramDropped ==
    (Deserialized /\ Deserialize(datagram[1]).kind = "Error")
        => (pc # "aborted" /\ sent = NoneVal)

\* C2: when the handler function of a registered resource, called for a GET
\* or PUT, raises anything but CoapNotFoundError, handle_request returns a
\* response with code 5.00 (160) and body 'Internal Server Error'.
C2_HandlerFaultIs500 ==
    (outcome # NoneVal /\ outcome[1].kind = "raise" /\ outcome[1].exc # "CoapNotFoundError")
        => /\ coap_resp # NoneVal
           /\ coap_resp[1].code = COAP_SERVER_ERROR_INTERNAL_SERVER_ERROR
           /\ coap_resp[1].payload = Some(PyStr(TextInternalServerError))

\* the request is a GET or PUT whose joined Uri-Path is non-empty and no key
\* of the registry
UnregisteredPath(registry, request, p) ==
    /\ Method(request) \in {COAP_METHOD_GET, COAP_METHOD_PUT}
    /\ p.exc = ""
    /\ p.s # <<>>
    /\ ~DictHas(registry, p.s)

\* C3: the response handle_request returns for a GET or PUT to a non-empty
\* path that is not registered has code 4.04 (132) and body 'Not Found', and
\* type Ack when the request was Confirmable.
C3_UnregisteredPathIs404 ==
    (Responded /\ UnregisteredPath(resources, coap_req[1], UriPath(coap_req[1])))
        => /\ coap_resp[1].code = COAP_CLIENT_ERROR_NOT_FOUND
           /\ coap_resp[1].payload = Some(PyStr(TextNotFound))
           /\ (coap_req[1].t = COAP_TYPE_CONFIRMABLE
                  => coap_resp[1].t = Some(COAP_TYPE_ACKNOWLEDGEMENT))

\* C4: every response make_response built for a Confirmable request has type
\* Acknowledgement and every one built for a Non-Confirmable request has type
\* Non-Confirmable, whatever the method, path, handler outcome and code.
C4_ResponseTypeFollowsRequestType ==
    Responded
        => /\ (coap_req[1].t = COAP_TYPE_CONFIRMABLE
                  => coap_resp[1].t = Some(COAP_TYPE_ACKNOWLEDGEMENT))
           /\ (coap_req[1].t = COAP_TYPE_NON_CONFIRMABLE
                  => coap_resp[1].t = Some(COAP_TYPE_NON_CONFIRMABLE))

\* a Non-Confirmable request answered 5.00 after its handler failed, and a
\* Confirmable one answered 2.05, have been sent responses of type 1 and 2
C4_Witness ==
    /\ Responded
    /\ sent # NoneVal
    /\ coap_req[1].t = COAP_TYPE_NON_CONFIRMABLE
    /\ outcome # NoneVal
    /\ coap_resp[1].code = COAP_SERVER_ERROR_INTERNAL_SERVER_ERROR
    /\ coap_resp[1].t = Some(COAP_TYPE_NON_CONFIRMABLE)
    /\ HeaderT(sent[1].datagram[1]) = COAP_TYPE_NON_CONFIRMABLE

\* the token bytes of a datagram, <<>> when it has none
WireToken(dgram) == SubSeq(dgram, 5, 4 + HeaderTkl(dgram[1]))

\* C5: the response built for a request has the request's mid and token, and
\* the serialized response has the request datagram's message-id bytes, token
\* length and token bytes.
C5_ResponseEchoesMidAndToken ==
    /\ Responded
          => /\ coap_resp[1].mid = coap_req[1].mid
             /\ coap_resp[1].token = coap_req[1].token
    /\ coap_msg # NoneVal
          => /\ Len(coap_msg[1]) >= 4 + HeaderTkl(datagram[1][1])
             /\ SubSeq(coap_msg[1], 3, 4) = SubSeq(datagram[1], 3, 4)
             /\ HeaderTkl(coap_msg[1][1]) = HeaderTkl(datagram[1][1])
             /\ WireToken(coap_msg[1]) = WireToken(datagram[1])

\* a request with mid 0x1234 and a 1-byte token has been sent its response
C5_Witness ==
    /\ sent # NoneVal
    /\ HeaderTkl(datagram[1][1]) = 1
    /\ coap_req[1].mid = 4660
    /\ coap_req[1].token = Some(<<104>>)
    /\ SubSeq(sent[1].datagram, 3, 5) = <<18, 52, 104>>

\* C6: nothing is sent in a turn of the loop whose request has type
\* Acknowledgement or Reset.
C6_NoResponseToAckOrReset ==
    (coap_req # NoneVal
       /\ coap_req[1].t \in {COAP_TYPE_ACKNOWLEDGEMENT, COAP_TYPE_RESET})
        => (sent = NoneVal /\ pc # "send")

\* a response was built for a Reset request to a registered resource and the
\* turn ended in serialize without a send
C6_Witness ==
    /\ Responded
    /\ coap_req[1].kind = "Request"
    /\ coap_req[1].t = COAP_TYPE_RESET
    /\ coap_resp[1].code = COAP_SUCCESS_CONTENT
    /\ pc = "aborted"
    /\ sent = NoneVal

\* C7: a 4-byte datagram with version 1 and code 0 deserializes to Empty with
\* the datagram's version, type and message id, and no response is produced
\* for it.
C7_EmptyPing ==
    (Deserialized /\ Len(datagram[1]) = 4 /\ HeaderVer(datagram[1][1]) = 1
       /\ datagram[1][2] = 0)
        => /\ coap_req # NoneVal
           /\ coap_req[1].kind = "Empty"
           /\ coap_req[1].ver = 1
           /\ coap_req[1].t = HeaderT(datagram[1][1])
           /\ coap_req[1].mid = UnpackH(datagram[1][3], datagram[1][4])
           /\ coap_resp = NoneVal
           /\ sent = NoneVal

\* C14: a datagram is received only when the turn of the previous one is
\* over; in a turn at most one datagram is sent, by the send statement, and it
\* is the serialized response, addressed to the peer the turn's datagram came
\* from and carrying that datagram's message id.
C14_OneAnswerPerTurnToItsPeer ==
    [][/\ datagram' # datagram => (datagram = NoneVal \/ datagram' = NoneVal)
       /\ sent' # sent => \/ sent = NoneVal /\ pc = "send"
                          \/ sent' = NoneVal /\ pc' = "recv"
       /\ sent' # NoneVal
             => /\ sent'[1].destination = addr'[1]
                /\ sent'[1].datagram = coap_msg'[1]
                /\ SubSeq(sent'[1].datagram, 3, 4) = SubSeq(datagram'[1], 3, 4)
      ]_vars

\* the response to a datagram with mid 0x1234 from peer2 has been sent to peer2
C14_Witness ==
    /\ sent # NoneVal
    /\ addr = Some("peer2")
    /\ sent[1].destination = "peer2"
    /\ SubSeq(datagram[1], 3, 4) = <<18, 52>>
    /\ SubSeq(sent[1].datagram, 3, 4) = <<18, 52>>
    /\ pc = "loop"

\* uri_path() returned the empty string
EmptyPath(p) == p.exc = "" /\ p.s = <<>>

\* C15: for a request without a Uri-Path option, or whose joined Uri-Path is
\* empty, handle_request returns a response with code 4.00 (128), whatever
\* the method code.
C15_EmptyPathIs400 ==
    (coap_req # NoneVal /\ pc # "handle" /\ coap_req[1].kind = "Request"
       /\ EmptyPath(UriPath(coap_req[1])))
        => /\ coap_resp # NoneVal
           /\ coap_resp[1].code = COAP_CLIENT_ERROR_BAD_REQUEST

\* uri_path() returned a path that is not empty
NonEmptyPath(p) == p.exc = "" /\ p.s # <<>>

\* C16: of the responses to requests with a non-empty path, those to the codes
\* 2 (POST) and 4 (DELETE) have code 5.01 (161), and those to a code byte
\* outside 1..4 have code 4.00 (128) and no handler function was called.
C16_DispatchByCode ==
    (Responded /\ NonEmptyPath(UriPath(coap_req[1])))
        => /\ coap_req[1].code \in {COAP_METHOD_POST, COAP_METHOD_DELETE}
                 => coap_resp[1].code = COAP_SERVER_ERROR_NOT_IMPLEMENTED
           /\ coap_req[1].code \notin 1..4
                 => /\ coap_resp[1].code = COAP_CLIENT_ERROR_BAD_REQUEST
                    /\ outcome = NoneVal

\* s ends with suffix
EndsWith(s, suffix) ==
    /\ Len(s) >= Len(suffix)
    /\ SubSeq(s, Len(s) - Len(suffix) + 1, Len(s)) = suffix

\* json.dumps of a str of plain ASCII letters: the text in double quotes
JsonOfText(text) == <<34>> \o text \o <<34>>

\* the handler function returned a non-empty payload with content format cf
HandlerGave(cf) ==
    /\ outcome # NoneVal
    /\ outcome[1].kind = "return"
    /\ Truthy(outcome[1].data)
    /\ outcome[1].content_format = PyInt(cf)
    /\ coap_resp # NoneVal
    /\ pc # "serialize"

\* C17: serialize of a response whose handler gave a non-empty payload with
\* content format 47, or one outside {0, 40, 41, 42, 50}, raises
\* CoapContentFormatError and no bytes are produced; with content format 50
\* the bytes end with the marker and the JSON encoding of the payload.
C17_ContentFormatDrivesPayload ==
    /\ (HandlerGave(COAP_CONTENTFORMAT_APPLICATION_EXI) \/ HandlerGave(99))
          => (pc = "aborted" /\ exc = "CoapContentFormatError" /\ coap_msg = NoneVal)
    /\ HandlerGave(COAP_CONTENTFORMAT_APPLICATION_JSON)
          => /\ coap_msg # NoneVal
             /\ EndsWith(coap_msg[1],
                         <<COAP_PAYLOAD_MARKER>> \o JsonOfText(outcome[1].data.b))

\* C19 (first half): a datagram with token length 9 that holds its 9 token
\* bytes is accepted by deserialize; (second half) for a request with a token
\* longer than 8 bytes handle_request calls no handler function and its
\* response has no success code (class 2).
C19_LongTokenRejectedAtDispatch ==
    /\ (Deserialized /\ datagram[1] \in LongTokenDatagrams)
          => (coap_req # NoneVal /\ coap_req[1].kind = "Request" /\ coap_req[1].tkl = 9)
    /\ (Responded /\ coap_req[1].tkl > 8)
          => (outcome = NoneVal /\ coap_resp[1].code \div 32 # 2)

----------------------------------------------------------------------------
(* Properties of the codec, checked under SpecCodec *)

\* C8: deserialize of a datagram of at least 4 bytes whose version bits are
\* not 01 raises CoapVersionError, whatever its code byte and length.
C8_WrongVersionRaisesVersionError ==
    (pc = "decoded" /\ Len(datagram[1]) >= 4 /\ HeaderVer(datagram[1][1]) # 1)
        => (coap_req[1].kind = "Error" /\ coap_req[1].exc = "CoapVersionError")

\* the 1-based index of the payload marker met in option-header position when
\* the options are walked from offset pos, 0 when the walk ends without one
\* (end of datagram, field 15, cut option, unregistered option number)
RECURSIVE MarkerIndex(_, _, _)

MarkerAfterValue(dgram, running_delta, d, l) ==
    IF l.exc # "" THEN 0
    ELSE IF l.pos + l.v > Len(dgram) THEN 0
    ELSE IF (d.v + running_delta) \notin DOMAIN coapOptionsRegistry THEN 0
    ELSE MarkerIndex(dgram, l.pos + l.v, running_delta + d.v)

MarkerAfterDelta(dgram, running_delta, option_header, d) ==
    IF d.exc # "" THEN 0
    ELSE MarkerAfterValue(dgram, running_delta, d,
                          OptionField(dgram, d.pos, option_header % 16))

MarkerIndex(dgram, pos, running_delta) ==
    IF pos >= Len(dgram) THEN 0
    ELSE IF dgram[pos + 1] = COAP_PAYLOAD_MARKER THEN pos + 1
    ELSE MarkerAfterDelta(dgram, running_delta, dgram[pos + 1],
                          OptionField(dgram, pos + 1, dgram[pos + 1] \div 16))

\* a datagram longer than its header, with version 1, a code that is not 0
\* and room for its token
IsRequestDatagram(dgram) ==
    /\ Len(dgram) > 4
    /\ HeaderVer(dgram[1]) = 1
    /\ dgram[2] # 0
    /\ 4 + HeaderTkl(dgram[1]) <= Len(dgram)

\* request is a Request whose payload is what follows the marker at index m
PayloadFollowsMarker(dgram, m, request) ==
    (m > 0 /\ m < Len(dgram))
        => /\ request.kind = "Request"
           /\ request.payload = Some(SubSeq(dgram, m + 1, Len(dgram)))

\* C9: deserialize of a request datagram that has the payload marker 0xFF in
\* option-header position, with at least one byte after it, returns a Request
\* whose payload is the rest of the datagram after the marker.
C9_PayloadIsRestAfterMarker ==
    (pc = "decoded" /\ IsRequestDatagram(datagram[1]))
        => PayloadFollowsMarker(datagram[1],
                                MarkerIndex(datagram[1], 4 + HeaderTkl(datagram[1][1]), 0),
                                coap_req[1])

\* the bytes of an unsigned integer, big-endian, none for 0
RECURSIVE UintBytes(_)
UintBytes(n) == IF n = 0 THEN <<>> ELSE UintBytes(n \div 256) \o <<n % 256>>

\* the bytes a str, int or bytes value stands for on the wire
ValueBytes(v) ==
    IF v.ty = "int" THEN UintBytes(v.n)
    ELSE IF v.ty = "str" THEN Utf8Encode(v.b).b
    ELSE v.b

\* the same (number, value) sequence
SameOptions(a, b) ==
    /\ Len(a) = Len(b)
    /\ \A i \in 1..Len(a) :
          /\ a[i].number = b[i].number
          /\ ValueBytes(a[i].value) = ValueBytes(b[i].value)

\* both absent, or both present with the same bytes
SamePayload(p, q) ==
    IF p = NoneVal THEN q = NoneVal
    ELSE q # NoneVal /\ ValueBytes(p[1]) = q[1]

\* request has the type, code, mid, token, options and payload of message
SameMessage(message, request) ==
    /\ request.kind = "Request"
    /\ message.t = Some(request.t)
    /\ message.code = request.code
    /\ message.mid = request.mid
    /\ message.token = request.token
    /\ SameOptions(message.options, request.options)
    /\ SamePayload(message.payload, request.payload)

\* C10: for every valid message M, serialize(M) returns a datagram and
\* deserialize of it returns a message with M's type, code, mid, token,
\* options and payload.
C10_RoundTrip ==
    coap_resp # NoneVal
        => /\ pc # "failed"
           /\ pc = "decoded" => SameMessage(coap_resp[1], coap_req[1])


\* the option numbers a decoder reads from the option block at offset pos by
\* summing the deltas, up to the end of the block (end of datagram, payload
\* marker, or a field it cannot read)
RECURSIVE WireOptionNumbers(_, _, _)

WireNumbersAfterValue(dgram, running_delta, d, l) ==
    IF l.exc # "" THEN <<>>
    ELSE IF l.pos + l.v > Len(dgram) THEN <<>>
    ELSE <<running_delta + d.v>> \o WireOptionNumbers(dgram, l.pos + l.v, running_delta + d.v)

WireNumbersAfterDelta(dgram, running_delta, option_header, d) ==
    IF d.exc # "" THEN <<>>
    ELSE WireNumbersAfterValue(dgram, running_delta, d,
                               OptionField(dgram, d.pos, option_header % 16))

WireOptionNumbers(dgram, pos, running_delta) ==
    IF pos >= Len(dgram) THEN <<>>
    ELSE IF dgram[pos + 1] = COAP_PAYLOAD_MARKER THEN <<>>
    ELSE WireNumbersAfterDelta(dgram, running_delta, dgram[pos + 1],
                               OptionField(dgram, pos + 1, dgram[pos + 1] \div 16))

\* each option of the message is one serialize emits when it is the only option
EachPacksAlone(message) ==
    \A i \in 1..Len(message.options) :
        Serialize([message EXCEPT !.options = <<message.options[i]>>]).exc = ""

\* the option numbers of a message, in order
OptionNumbers(message) == [i \in 1..Len(message.options) |-> message.options[i].number]

\* C11: for every message whose options are sorted ascending (each of them
\* one that to_bytes can emit), serialize emits an option block whose deltas,
\* summed from 0, give back each option number.
C11_DeltasReconstructNumbers ==
    (coap_resp # NoneVal /\ pc # "codec" /\ EachPacksAlone(coap_resp[1]))
        => /\ pc # "failed"
           /\ WireOptionNumbers(coap_msg[1], 4 + HeaderTkl(coap_msg[1][1]), 0)
                  = OptionNumbers(coap_resp[1])

\* the message has one option, of type uint, with a value of at most 4 bytes
OneUintOption(message) ==
    /\ Len(message.options) = 1
    /\ coapOptionsRegistry[message.options[1].number].type = COAP_OPTION_TYPE_UINT
    /\ message.options[1].value.ty = "int"
    /\ message.options[1].value.n >= 0
    /\ Len(UintBytes(message.options[1].value.n)) <= 4

\* the bytes of dgram at the offsets pos + 1 .. pos + n are the bytes of value
ValueAt(dgram, pos, value) ==
    /\ Len(dgram) >= pos + Len(value)
    /\ SubSeq(dgram, pos + 1, pos + Len(value)) = value

\* C21: serialize of a message whose one option is a uint option with value
\* v < 2^32 emits the option as a header byte whose length field is the number
\* of bytes of v (none for 0, 1 for 1..255, 2 for 256..65535) followed by
\* those bytes in big-endian order.
C21_UintOptionBytes ==
    (coap_resp # NoneVal /\ pc # "codec" /\ OneUintOption(coap_resp[1]))
        => /\ pc # "failed"
           /\ coap_msg[1][4 + HeaderTkl(coap_msg[1][1]) + 1]
                 = coap_resp[1].options[1].number * 16
                       + Len(UintBytes(coap_resp[1].options[1].value.n))
           /\ ValueAt(coap_msg[1], 4 + HeaderTkl(coap_msg[1][1]) + 1,
                      UintBytes(coap_resp[1].options[1].value.n))

----------------------------------------------------------------------------
(* Properties of the registry, checked under SpecRegistry *)

\* '<temp>;rt="temperature"'
TextTempLink ==
    <<60, 116, 101, 109, 112, 62, 59, 114, 116, 61, 34>> \o TextTemperature \o <<34>>

\* the registry entries the embedder made: all but start()'s '.well-known/core'
EmbedderEntries ==
    LET own(e) == e.key # TextWellKnownCore
    IN SelectSeq(resources, own)

\* the embedder registered exactly one resource: 'temp' with rt = 'temperature'
OnlyTempRegistered ==
    /\ Len(EmbedderEntries) = 1
    /\ EmbedderEntries[1].key = <<116, 101, 109, 112>>
    /\ objs[EmbedderEntries[1].val].path = <<116, 101, 109, 112>>
    /\ objs[EmbedderEntries[1].val].rt = Some(PyStr(TextTemperature))

\* C12: the response of a started server to GET /.well-known/core has code
\* 2.05 and the Content-Format option 40, and when the one registered
\* resource is temp with rt="temperature" its payload is exactly
\* <temp>;rt="temperature".
C12_DiscoveryPayload ==
    pc = "discovered"
        => /\ coap_resp # NoneVal
           /\ coap_resp[1].code = COAP_SUCCESS_CONTENT
           /\ coap_resp[1].options =
                  <<[number |-> COAP_OPTION_CONTENT_FORMAT,
                     value |-> PyInt(COAP_CONTENTFORMAT_APPLICATION_LINKFORMAT)]>>
           /\ OnlyTempRegistered => coap_resp[1].payload = Some(PyStr(TextTempLink))


\* the children of the objects in S
Children(objects, S) ==
    UNION {{objects[i].children[k] : k \in 1..Len(objects[i].children)} : i \in S}

\* the objects in S and their descendants through children lists
RECURSIVE WithDescendants(_, _)
WithDescendants(objects, S) ==
    IF Children(objects, S) \subseteq S THEN S
    ELSE WithDescendants(objects, S \cup Children(objects, S))

\* the paths of the objects in S and of their descendants
FamilyPaths(objects, S) == {objects[i].path : i \in WithDescendants(objects, S)}

\* the step raised nothing and took exactly the keys in gone out of the registry
RemovedCleanly(gone) ==
    LET stays(e) == e.key \notin gone
    IN /\ exc' = ""
       /\ resources' = SelectSeq(resources, stays)

\* the children of parent are all registered under their paths
ChildrenRegistered(parent) ==
    \A k \in 1..Len(objs[parent].children) :
        DictHas(resources, objs[objs[parent].children[k]].path)

\* C13: a step that removes a registered path (deleteResource of a key,
\* removeChild of a registered child, removeChildren of registered children)
\* raises nothing and leaves the registry without that path and without the
\* paths of its descendants, all other entries unchanged.
C13_RemoveTakesDescendants ==
    [][/\ \A uri \in KnownPaths :
             (DictHas(resources, uri) /\ DeleteResource(uri))
                 => RemovedCleanly({uri} \cup FamilyPaths(objs, {DictGet(resources, uri)}))
       /\ \A parent \in 1..Len(objs), child \in 1..Len(objs) :
             (/\ ListHas(objs[parent].children, child)
              /\ DictHas(resources, objs[child].path)
              /\ RemoveChild(parent, child))
                 => RemovedCleanly(FamilyPaths(objs, {child}))
       /\ \A parent \in 1..Len(objs) :
             (/\ objs[parent].children # <<>>
              /\ ChildrenRegistered(parent)
              /\ RemoveChildren(parent))
                 => RemovedCleanly(FamilyPaths(objs, Children(objs, {parent})))
      ]_vars


\* whether a decoder walking the options from offset pos reads, before any
\* payload marker, a whole option whose number is not in the registry
RECURSIVE MeetsUnregistered(_, _, _)

UnregisteredAfterValue(dgram, running_delta, d, l) ==
    IF l.exc # "" THEN FALSE
    ELSE IF l.pos + l.v > Len(dgram) THEN FALSE
    ELSE IF (d.v + running_delta) \notin DOMAIN coapOptionsRegistry THEN TRUE
    ELSE MeetsUnregistered(dgram, l.pos + l.v, running_delta + d.v)

UnregisteredAfterDelta(dgram, running_delta, option_header, d) ==
    IF d.exc # "" THEN FALSE
    ELSE UnregisteredAfterValue(dgram, running_delta, d,
                                OptionField(dgram, d.pos, option_header % 16))

MeetsUnregistered(dgram, pos, running_delta) ==
    IF pos >= Len(dgram) THEN FALSE
    ELSE IF dgram[pos + 1] = COAP_PAYLOAD_MARKER THEN FALSE
    ELSE UnregisteredAfterDelta(dgram, running_delta, dgram[pos + 1],
                                OptionField(dgram, pos + 1, dgram[pos + 1] \div 16))

\* C18: deserialize of a request datagram in which an option with an
\* unregistered number is decoded raises CoapBadOptionError, and no request
\* deserialize returns holds an option with an unregistered number.
C18_UnregisteredOptionIsBadOption ==
    pc = "decoded"
        => /\ (IsRequestDatagram(datagram[1])
                 /\ MeetsUnregistered(datagram[1], 4 + HeaderTkl(datagram[1][1]), 0))
                 => (coap_req[1].kind = "Error" /\ coap_req[1].exc = "CoapBadOptionError")
           /\ \A i \in 1..Len(coap_req[1].options) :
                 coap_req[1].options[i].number \in DOMAIN coapOptionsRegistry

\* C22: after any sequence of addResource, addChild and remove calls, every
\* key of the registry is the current path of the resource it maps to, and no
\* resource is registered under two keys.
C22_KeysArePathsOnce ==
    pc = "setup"
        => /\ \A i \in 1..Len(resources) :
                 resources[i].key = objs[resources[i].val].path
           /\ \A i, j \in 1..Len(resources) :
                 resources[i].val = resources[j].val => i = j

----------------------------------------------------------------------------
(* Properties of add_option, checked under SpecOptions *)

\* C20: after any sequence of add_option calls on a CoapResponse its options
\* are in ascending order of option number, and of two options with the same
\* number the one added first comes first (the values count the additions).
C20_OptionsSortedStable ==
    pc = "options"
        => \A i \in 1..Len(coap_resp[1].options), j \in 1..Len(coap_resp[1].options) :
              i < j => \/ coap_resp[1].options[i].number < coap_resp[1].options[j].number
                       \/ /\ coap_resp[1].options[i].number = coap_resp[1].options[j].number
                          /\ coap_resp[1].options[i].value.n < coap_resp[1].options[j].value.n

\* two Uri-Path options were added, then a Uri-Host option, which went first
C20_Witness ==
    /\ pc = "options"
    /\ Len(coap_resp[1].options) = 3
    /\ coap_resp[1].options[1] = [number |-> COAP_OPTION_URI_HOST, value |-> PyInt(3)]
    /\ coap_resp[1].options[2] = [number |-> COAP_OPTION_URI_PATH, value |-> PyInt(1)]
    /\ coap_resp[1].options[3] = [number |-> COAP_OPTION_URI_PATH, value |-> PyInt(2)]

----------------------------------------------------------------------------
(* Properties of the deserialize loop, checked under SpecDeserializeFair *)

\* C23: deserialize ends on every datagram: a pass of the option loop that is
\* followed by another pass has moved pos forward by at least one byte, pos
\* stays within the datagram and the passes made so far (one option appended
\* by each) are no more than the bytes read, so the call returns or raises.
C23_DeserializeTerminates ==
    /\ [][(pc = "loop" /\ pc' = "loop")
             => /\ locals'[1].pos >= locals[1].pos + 1
                /\ locals'[1].pos <= Len(datagram[1])
                /\ Len(locals'[1].options) <= locals'[1].pos - 4]_vars
    /\ <>(pc = "returned")

\* the loop made three passes that appended an option, a fourth one found
\* the end of the datagram and deserialize returned the request
C23_Witness ==
    /\ pc = "returned"
    /\ locals # NoneVal
    /\ Len(locals[1].options) = 3
    /\ locals[1].pos = Len(datagram[1])
    /\ coap_req[1].kind = "Request"

====
